---- MODULE Spec2Model ----
(***************************************************************************)
(* Model of bin/ingest_archive_video.py: scan a directory of .mp4 files,   *)
(* derive anthology ids from the file names, insert <video href=.../> tags *)
(* into the matching paper nodes of the collection XML files and rewrite   *)
(* those files.                                                            *)
(*                                                                         *)
(* Strings are sequences of one-character strings, so that split('.'),     *)
(* slicing, concatenation, the substring test and the string order of      *)
(* list.sort() are computed and not assumed.                               *)
(***************************************************************************)
EXTENDS Integers, Sequences, FiniteSets, TLC

VARIABLES video_dir, dir_listing, data_listing, disk, disk0, pc, runs,
          collection_ids, xml_files, anth_ids_single, anth_ids_multiple,
          doc, tree, i, j, written, inserted, attempted, loaded

vars == <<video_dir, dir_listing, data_listing, disk, disk0, pc, runs,
          collection_ids, xml_files, anth_ids_single, anth_ids_multiple,
          doc, tree, i, j, written, inserted, attempted, loaded>>

(* ------------------------------ bounds --------------------------------- *)
MaxFiles == 3
MaxRuns == 2

(* ------------------------------ strings -------------------------------- *)
Range(s) == {s[k] : k \in 1..Len(s)}

\* code points of the characters used, as Python's str comparison sees them
Ord(c) ==
    CASE c = "-" -> 45 [] c = "." -> 46 [] c = "/" -> 47
      [] c = "0" -> 48 [] c = "1" -> 49 [] c = "2" -> 50 [] c = "3" -> 51
      [] c = "4" -> 52 [] c = "9" -> 57
      [] c = "N" -> 78 [] c = "Q" -> 81 [] c = "R" -> 82 [] c = "X" -> 88
      [] c = "d" -> 100 [] c = "l" -> 108 [] c = "m" -> 109 [] c = "p" -> 112
      [] c = "t" -> 116 [] c = "v" -> 118 [] c = "x" -> 120

IsDigit(c) == Ord(c) >= 48 /\ Ord(c) <= 57

\* s[n:]
DropFirst(s, n) == IF n >= Len(s) THEN << >> ELSE SubSeq(s, n + 1, Len(s))

\* s.endswith(t)
EndsWith(s, t) ==
    Len(s) >= Len(t) /\ SubSeq(s, Len(s) - Len(t) + 1, Len(s)) = t

\* t in s   (Python substring test)
Contains(s, t) ==
    \E k \in 0..(Len(s) - Len(t)) : SubSeq(s, k + 1, k + Len(t)) = t

\* position of the first / last occurrence of character c in s, 0 if none
IndexOf(s, c) ==
    IF c \in Range(s) THEN CHOOSE k \in 1..Len(s) :
                               s[k] = c /\ \A m \in 1..(k - 1) : s[m] # c
    ELSE 0

LastIndexOf(s, c) ==
    IF c \in Range(s) THEN CHOOSE k \in 1..Len(s) :
                               s[k] = c /\ \A m \in (k + 1)..Len(s) : s[m] # c
    ELSE 0

\* s.split('.')
RECURSIVE Split(_)
Split(s) ==
    LET k == IndexOf(s, ".")
    IN  IF k = 0 THEN << s >>
        ELSE << SubSeq(s, 1, k - 1) >> \o Split(DropFirst(s, k))

\* Python's < on str: first differing code point, a proper prefix is smaller
RECURSIVE StrLess(_, _)
StrLess(a, b) ==
    IF b = << >> THEN FALSE
    ELSE IF a = << >> THEN TRUE
    ELSE IF a[1] # b[1] THEN Ord(a[1]) < Ord(b[1])
    ELSE StrLess(Tail(a), Tail(b))

\* Python's < on lists of str
RECURSIVE ListLess(_, _)
ListLess(a, b) ==
    IF b = << >> THEN FALSE
    ELSE IF a = << >> THEN TRUE
    ELSE IF a[1] # b[1] THEN StrLess(a[1], b[1])
    ELSE ListLess(Tail(a), Tail(b))

\* list.sort() on a list of lists of str
RECURSIVE InsertSorted(_, _)
InsertSorted(x, s) ==
    IF s = << >> THEN << x >>
    ELSE IF ListLess(x, s[1]) THEN << x >> \o s
    ELSE << s[1] >> \o InsertSorted(x, Tail(s))

\* mutant: the list is left in the order of the directory listing
SortLists_unsorted(s) == s

RECURSIVE SortLists(_)
SortLists(s) ==
    IF s = << >> THEN << >>
    ELSE InsertSorted(s[1], SortLists(Tail(s)))

(* ------------------------ the file names used -------------------------- *)
MP4 == <<".", "m", "p", "4">>
XML == <<".", "x", "m", "l">>

N13 == <<"N", "1", "3">>
Q13 == <<"Q", "1", "3">>
R13 == <<"R", "1", "3">>
XN13 == <<"X", "N", "1", "3">>

\* candidate entries of the video directory
FileNames ==
    { N13 \o <<"-", "1">> \o MP4,                       \* N13-1.mp4
      N13 \o <<"-", "9">> \o MP4,                       \* N13-9.mp4 (no such paper)
      N13 \o <<"-", "2", ".", "1">> \o MP4,             \* N13-2.1.mp4
      N13 \o <<"-", "2", ".", "2">> \o MP4,             \* N13-2.2.mp4
      N13 \o <<"-", "2", ".", "1", "0">> \o MP4,        \* N13-2.10.mp4
      N13 \o <<"-", "2", ".", "1", ".", "x">> \o MP4,   \* N13-2.1.x.mp4
      Q13 \o <<"-", "1">> \o MP4,                       \* Q13-1.mp4
      XN13 \o <<"-", "1">> \o MP4,                      \* XN13-1.mp4
      N13 \o <<"-", "1", ".", "t", "x", "t">> }         \* N13-1.txt

\* the documented form of --video_dir ends with the path separator
VideoDirs == { <<"/", "v", "/">>, <<"/", "v", "d", "/">> }

(* --------------------------- the XML documents ------------------------- *)
\* An element is [tag, href]; a paper is [id, children]; a volume is
\* [id, papers]; a document tree is the sequence of its volume nodes.
None == << >>

Title == [tag |-> "title", href |-> << >>]

Paper(id) == [id |-> id, children |-> << Title >>]

Doc13_12 == << [id |-> <<"1", "3">>, papers |-> << Paper(<<"1">>), Paper(<<"2">>) >>] >>
Doc13_1 == << [id |-> <<"1", "3">>, papers |-> << Paper(<<"1">>) >>] >>
Doc14_1 == << [id |-> <<"1", "4">>, papers |-> << Paper(<<"1">>) >>] >>

DataFiles == { N13 \o XML, Q13 \o XML, R13 \o XML, XN13 \o XML }

\* content of data/xml before the first run
InitialDisk ==
    [f \in DataFiles |->
        IF f = N13 \o XML THEN Doc13_12
        ELSE IF f = Q13 \o XML THEN Doc14_1
        ELSE Doc13_1]

\* the orders os.listdir(DATA_DIR) may return
DataListings ==
    { << N13 \o XML, Q13 \o XML, R13 \o XML, XN13 \o XML >>,
      << XN13 \o XML, R13 \o XML, Q13 \o XML, N13 \o XML >> }

(* ------------------------------ scanning ------------------------------- *)
\* glob.glob(f"{video_dir}/*.mp4"): the paths of the entries that end in
\* .mp4 and are not hidden, in the order the directory returns them
RECURSIVE Glob(_, _)
Glob(vd, listing) ==
    IF listing = << >> THEN << >>
    ELSE (IF EndsWith(listing[1], MP4) /\ listing[1][1] # "."
          THEN << vd \o listing[1] >> ELSE << >>)
         \o Glob(vd, Tail(listing))

\* file[len(video_dir):].split('.')
Segments(vd, file) == Split(DropFirst(file, Len(vd)))

\* anthology.utils.deconstruct_anthology_id: (collection, volume, paper).
\* The collection code is the part before the dash, the volume code is its
\* numeric part, the paper code is the part after the dash.
RECURSIVE DropLetters(_)
DropLetters(s) ==
    IF s = << >> \/ IsDigit(s[1]) THEN s ELSE DropLetters(Tail(s))

deconstruct_anthology_id(anth_id) ==
    LET k == IndexOf(anth_id, "-")
        collection == SubSeq(anth_id, 1, k - 1)
    IN  << collection, DropLetters(collection), DropFirst(anth_id, k) >>

get_collection_ids(vd, listing) ==
    LET files == Glob(vd, listing)
    IN  { deconstruct_anthology_id(Segments(vd, files[k])[1])[1] :
              k \in 1..Len(files) }

\* mutant: every file of two or more segments counts as a single video
RECURSIVE SingleIds_atleast2(_, _)
SingleIds_atleast2(vd, files) ==
    IF files = << >> THEN << >>
    ELSE (IF Len(Segments(vd, files[1])) >= 2
          THEN << Segments(vd, files[1])[1] >> ELSE << >>)
         \o SingleIds_atleast2(vd, Tail(files))

RECURSIVE SingleIds(_, _)
SingleIds(vd, files) ==
    IF files = << >> THEN << >>
    ELSE (IF Len(Segments(vd, files[1])) = 2
          THEN << Segments(vd, files[1])[1] >> ELSE << >>)
         \o SingleIds(vd, Tail(files))

RECURSIVE MultipleIds(_, _)
MultipleIds(vd, files) ==
    IF files = << >> THEN << >>
    ELSE (IF Len(Segments(vd, files[1])) > 2
          THEN LET seg == Segments(vd, files[1])
               IN  << SubSeq(seg, 1, Len(seg) - 1) >>
          ELSE << >>)
         \o MultipleIds(vd, Tail(files))

\* returns << anth_ids_single, anth_ids_multiple >>
get_anth_ids(vd, listing) ==
    << SingleIds(vd, Glob(vd, listing)),
       SortLists(MultipleIds(vd, Glob(vd, listing))) >>

(* ------------------------------ tagging -------------------------------- *)
\* xml_parse.find('./volume[@id="V"]/paper[@id="P"]'): the first match in
\* document order as << volume index, paper index >>, or None
Find(t, volume_id, paper_id) ==
    LET nodes == UNION { { <<v, p>> : p \in 1..Len(t[v].papers) } :
                             v \in 1..Len(t) }
        hits == { loc \in nodes :
                      /\ t[loc[1]].id = volume_id
                      /\ t[loc[1]].papers[loc[2]].id = paper_id }
    IN  IF hits = {} THEN None
        ELSE CHOOSE loc \in hits :
                 \A o \in hits : \/ loc[1] < o[1]
                                 \/ (loc[1] = o[1] /\ loc[2] <= o[2])

\* anthology.utils.make_simple_element(tag, attrib={"href": url}, parent):
\* a new element attached as the last child of parent; a parent of None is
\* the fatal lookup failure.  The result is [ok, tree].
make_simple_element(tag, url, parent, t) ==
    IF parent = None THEN [ok |-> FALSE, tree |-> t]
    ELSE [ok |-> TRUE,
          tree |-> [t EXCEPT ![parent[1]].papers[parent[2]].children =
                                 Append(@, [tag |-> tag, href |-> url])]]

\* mutant: a lookup miss is skipped instead of being fatal
add_video_tag_single_skip(anth_id, xml_parse) ==
    LET d == deconstruct_anthology_id(anth_id)
        paper == Find(xml_parse, d[2], d[3])
    IN  IF paper = None THEN [ok |-> TRUE, tree |-> xml_parse]
        ELSE make_simple_element("video", anth_id \o MP4, paper, xml_parse)

\* mutant: a tag that the paper already has is not added again
add_video_tag_single_dedup(anth_id, xml_parse) ==
    LET d == deconstruct_anthology_id(anth_id)
        paper == Find(xml_parse, d[2], d[3])
        el == [tag |-> "video", href |-> anth_id \o MP4]
    IN  IF paper = None THEN [ok |-> FALSE, tree |-> xml_parse]
        ELSE IF \E k \in 1..Len(xml_parse[paper[1]].papers[paper[2]].children) :
                    xml_parse[paper[1]].papers[paper[2]].children[k] = el
        THEN [ok |-> TRUE, tree |-> xml_parse]
        ELSE [ok |-> TRUE,
              tree |-> [xml_parse EXCEPT ![paper[1]].papers[paper[2]].children =
                            Append(@, el)]]

\* mutant: the tag is inserted in front of the paper's children
add_video_tag_single_first(anth_id, xml_parse) ==
    LET d == deconstruct_anthology_id(anth_id)
        paper == Find(xml_parse, d[2], d[3])
    IN  IF paper = None THEN [ok |-> FALSE, tree |-> xml_parse]
        ELSE [ok |-> TRUE,
              tree |-> [xml_parse EXCEPT ![paper[1]].papers[paper[2]].children =
                            << [tag |-> "video", href |-> anth_id \o MP4] >> \o @]]

add_video_tag_single(anth_id, xml_parse) ==
    LET d == deconstruct_anthology_id(anth_id)
        paper == Find(xml_parse, d[2], d[3])
        video_url == anth_id \o MP4
    IN  make_simple_element("video", video_url, paper, xml_parse)

add_video_tag_multiple(anth_id, vid_num, xml_parse) ==
    LET d == deconstruct_anthology_id(anth_id)
        paper == Find(xml_parse, d[2], d[3])
        video_url == anth_id \o <<".">> \o vid_num \o MP4
    IN  make_simple_element("video", video_url, paper, xml_parse)

\* os.path.splitext(file): << root, extension >>
Splitext(file) ==
    LET k == LastIndexOf(file, ".")
    IN  IF k <= 1 THEN << file, << >> >>
        ELSE << SubSeq(file, 1, k - 1), DropFirst(file, k - 1) >>

\* mutant: the tree is written under the collection id without extension
update_xml_noext(d, collection_id, extention, xml_tree) ==
    [d EXCEPT ![collection_id] = xml_tree]

\* update_xml: the file data_dir/collection_id+extention is overwritten with
\* the serialized tree
update_xml(d, collection_id, extention, xml_tree) ==
    [d EXCEPT ![collection_id \o extention] = xml_tree]

\* mutant: every file of the metadata store is selected
SelectXmlFiles_all(listing, cids) == listing

\* [file for file in os.listdir(DATA_DIR) if splitext(file)[0] in collection_ids]
RECURSIVE SelectXmlFiles(_, _)
SelectXmlFiles(listing, cids) ==
    IF listing = << >> THEN << >>
    ELSE (IF Splitext(listing[1])[1] \in cids THEN << listing[1] >> ELSE << >>)
         \o SelectXmlFiles(Tail(listing), cids)

\* the test "collection_id in anth_id" of main's two loops
Matches(collection_id, anth_id) == Contains(anth_id, collection_id)

(* ------------------------------- the run ------------------------------- *)
\* all orders in which a directory may list at most MaxFiles of FileNames
RECURSIVE Listings(_)
Listings(n) ==
    IF n = 0 THEN { << >> }
    ELSE LET shorter == Listings(n - 1)
         IN  shorter \cup { Append(l, f) : l \in shorter, f \in FileNames }

DirListings == { l \in Listings(MaxFiles) :
                     \A a, b \in 1..Len(l) : a # b => l[a] # l[b] }

NoWrites == [f \in DataFiles |-> 0]
NoInserts == [f \in DataFiles |-> << >>]

Init ==
    /\ video_dir \in VideoDirs
    /\ dir_listing \in DirListings
    /\ data_listing \in DataListings
    /\ disk = InitialDisk
    /\ disk0 = InitialDisk
    /\ pc = "scan"
    /\ runs = 1
    /\ collection_ids = {}
    /\ xml_files = << >>
    /\ anth_ids_single = << >>
    /\ anth_ids_multiple = << >>
    /\ doc = 0
    /\ tree = << >>
    /\ i = 0
    /\ j = 0
    /\ written = NoWrites
    /\ inserted = NoInserts
    /\ attempted = {}
    /\ loaded = {}

\* main, lines 127-135
Scan ==
    /\ pc = "scan"
    /\ collection_ids' = get_collection_ids(video_dir, dir_listing)
    /\ xml_files' = SelectXmlFiles(data_listing, collection_ids')
    /\ anth_ids_single' = get_anth_ids(video_dir, dir_listing)[1]
    /\ anth_ids_multiple' = get_anth_ids(video_dir, dir_listing)[2]
    /\ doc' = 1
    /\ pc' = "doc"
    /\ UNCHANGED <<video_dir, dir_listing, data_listing, disk, disk0, runs,
                   tree, i, j, written, inserted, attempted, loaded>>

\* main, lines 137-139: the next selected file is parsed
Load ==
    /\ pc = "doc"
    /\ doc <= Len(xml_files)
    /\ tree' = disk[xml_files[doc]]
    /\ loaded' = loaded \cup { xml_files[doc] }
    /\ i' = 1
    /\ j' = 1
    /\ pc' = "single"
    /\ UNCHANGED <<video_dir, dir_listing, data_listing, disk, disk0, runs,
                   collection_ids, xml_files, anth_ids_single,
                   anth_ids_multiple, doc, written, inserted, attempted>>

\* main returns after the last selected file
Finish ==
    /\ pc = "doc"
    /\ doc > Len(xml_files)
    /\ pc' = "done"
    /\ UNCHANGED <<video_dir, dir_listing, data_listing, disk, disk0, runs,
                   collection_ids, xml_files, anth_ids_single,
                   anth_ids_multiple, doc, tree, i, j, written, inserted,
                   attempted, loaded>>

\* mutant: the tag is added to the tree but the file is not rewritten
Tagging_nowrite(file, anth_id, url, r) ==
    /\ attempted' = attempted \cup { << file, anth_id >> }
    /\ IF r.ok
       THEN /\ tree' = r.tree
            /\ inserted' = [inserted EXCEPT ![file] = Append(@, url)]
            /\ pc' = pc
            /\ UNCHANGED <<disk, written>>
       ELSE /\ pc' = "failed"
            /\ UNCHANGED <<tree, disk, written, inserted>>

\* one matched identifier: the tag is added and the file rewritten, or the
\* run dies in the lookup
Tagging(file, anth_id, url, r) ==
    /\ attempted' = attempted \cup { << file, anth_id >> }
    /\ IF r.ok
       THEN /\ tree' = r.tree
            /\ disk' = update_xml(disk, Splitext(file)[1], Splitext(file)[2], r.tree)
            /\ written' = [written EXCEPT ![file] = @ + 1]
            /\ inserted' = [inserted EXCEPT ![file] = Append(@, url)]
            /\ pc' = pc
       ELSE /\ pc' = "failed"
            /\ UNCHANGED <<tree, disk, written, inserted>>

\* main, lines 140-148: one iteration of the loop over anth_ids_single
StepSingle ==
    /\ pc = "single"
    /\ i <= Len(anth_ids_single)
    /\ LET file == xml_files[doc]
           collection_id == Splitext(file)[1]
           anth_id == anth_ids_single[i]
       IN  IF Matches(collection_id, anth_id)
           THEN Tagging(file, anth_id, anth_id \o MP4,
                        add_video_tag_single(anth_id, tree))
           ELSE UNCHANGED <<tree, disk, written, inserted, attempted, pc>>
    /\ i' = IF pc' = "failed" THEN i ELSE i + 1
    /\ UNCHANGED <<video_dir, dir_listing, data_listing, disk0, runs,
                   collection_ids, xml_files, anth_ids_single,
                   anth_ids_multiple, doc, j, loaded>>

\* the loop over anth_ids_single is exhausted
EndSingle ==
    /\ pc = "single"
    /\ i > Len(anth_ids_single)
    /\ pc' = "multiple"
    /\ UNCHANGED <<video_dir, dir_listing, data_listing, disk, disk0, runs,
                   collection_ids, xml_files, anth_ids_single,
                   anth_ids_multiple, doc, tree, i, j, written, inserted,
                   attempted, loaded>>

\* main, lines 150-160: one iteration of the loop over anth_ids_multiple
StepMultiple ==
    /\ pc = "multiple"
    /\ j <= Len(anth_ids_multiple)
    /\ LET file == xml_files[doc]
           collection_id == Splitext(file)[1]
           anth_id == anth_ids_multiple[j][1]
           vid_num == anth_ids_multiple[j][2]
       IN  IF Matches(collection_id, anth_id)
           THEN Tagging(file, anth_id, anth_id \o <<".">> \o vid_num \o MP4,
                        add_video_tag_multiple(anth_id, vid_num, tree))
           ELSE UNCHANGED <<tree, disk, written, inserted, attempted, pc>>
    /\ j' = IF pc' = "failed" THEN j ELSE j + 1
    /\ UNCHANGED <<video_dir, dir_listing, data_listing, disk0, runs,
                   collection_ids, xml_files, anth_ids_single,
                   anth_ids_multiple, doc, i, loaded>>

\* the loop over anth_ids_multiple is exhausted: on to the next file
EndMultiple ==
    /\ pc = "multiple"
    /\ j > Len(anth_ids_multiple)
    /\ doc' = doc + 1
    /\ pc' = "doc"
    /\ UNCHANGED <<video_dir, dir_listing, data_listing, disk, disk0, runs,
                   collection_ids, xml_files, anth_ids_single,
                   anth_ids_multiple, tree, i, j, written, inserted,
                   attempted, loaded>>

\* the tool is started again on the same directory and metadata store
Rerun ==
    /\ pc \in {"done", "failed"}
    /\ runs < MaxRuns
    /\ runs' = runs + 1
    /\ pc' = "scan"
    /\ disk0' = disk
    /\ written' = NoWrites
    /\ inserted' = NoInserts
    /\ attempted' = {}
    /\ loaded' = {}
    /\ UNCHANGED <<video_dir, dir_listing, data_listing, disk,
                   collection_ids, xml_files, anth_ids_single,
                   anth_ids_multiple, doc, tree, i, j>>

Next ==
    \/ Scan
    \/ Load
    \/ Finish
    \/ StepSingle
    \/ EndSingle
    \/ StepMultiple
    \/ EndMultiple
    \/ Rerun

Spec == Init /\ [][Next]_vars

TypeOK ==
    /\ pc \in {"scan", "doc", "single", "multiple", "done", "failed"}
    /\ runs \in 1..MaxRuns

(* ------------------- vocabulary of the properties ---------------------- *)
\* the positions << volume, paper >> of the paper nodes of a tree
Nodes(t) == UNION { { <<v, p>> : p \in 1..Len(t[v].papers) } : v \in 1..Len(t) }

ChildrenAt(t, loc) == t[loc[1]].papers[loc[2]].children

\* the paper nodes with id P under a volume node with id V
PapersWith(t, V, P) ==
    { loc \in Nodes(t) : t[loc[1]].id = V /\ t[loc[1]].papers[loc[2]].id = P }

VideoTag(url) == [tag |-> "video", href |-> url]

Count(seq, x) == Cardinality({ k \in 1..Len(seq) : seq[k] = x })

\* the children a paper node has now and did not have in t0
NewChildren(t, t0, loc) ==
    SubSeq(ChildrenAt(t, loc), Len(ChildrenAt(t0, loc)) + 1, Len(ChildrenAt(t, loc)))

\* t is t0 with children appended to paper nodes and nothing else changed
OnlyAppended(t, t0) ==
    /\ Len(t) = Len(t0)
    /\ \A v \in 1..Len(t0) :
          /\ t[v].id = t0[v].id
          /\ Len(t[v].papers) = Len(t0[v].papers)
          /\ \A p \in 1..Len(t0[v].papers) :
                /\ t[v].papers[p].id = t0[v].papers[p].id
                /\ Len(t[v].papers[p].children) >= Len(t0[v].papers[p].children)
                /\ SubSeq(t[v].papers[p].children, 1,
                          Len(t0[v].papers[p].children)) = t0[v].papers[p].children

\* the number of children added to the paper nodes of t since t0
RECURSIVE SumNew(_, _, _)
SumNew(t, t0, locs) ==
    IF locs = {} THEN 0
    ELSE LET loc == CHOOSE l \in locs : TRUE
         IN  Len(NewChildren(t, t0, loc)) + SumNew(t, t0, locs \ {loc})

NewCount(t, t0) == SumNew(t, t0, Nodes(t0))

\* the file names of the directory by their form
Stem(name) == SubSeq(name, 1, Len(name) - Len(MP4))

IsMp4(name) == EndsWith(name, MP4) /\ Len(name) > Len(MP4)

Dots(s) == Cardinality({ k \in 1..Len(s) : s[k] = "." })

\* <id>.mp4
IsSingleForm(name) == IsMp4(name) /\ Dots(Stem(name)) = 0

\* <id>.<n>.mp4 with a numeric <n>
IsNumberedForm(name) ==
    /\ IsMp4(name)
    /\ Dots(Stem(name)) = 1
    /\ LET k == IndexOf(Stem(name), ".")
       IN  /\ k > 1
           /\ k < Len(Stem(name))
           /\ \A m \in (k + 1)..Len(Stem(name)) : IsDigit(Stem(name)[m])

IdOf(name) == SubSeq(name, 1, IndexOf(name, ".") - 1)

NumOf(name) == SubSeq(Stem(name), IndexOf(name, ".") + 1, Len(Stem(name)))

\* the collection code in front of the dash of a file name
CodeOf(name) == SubSeq(name, 1, IndexOf(name, "-") - 1)

\* the base code of a metadata file: its name without ".xml"
BaseOf(file) == SubSeq(file, 1, Len(file) - Len(XML))

DirNames == Range(dir_listing)

Scanned == pc # "scan"

\* the file the run is working on
Current == xml_files[doc]

\* the identifier the run is about to look at in the single-video loop
AtSingle ==
    /\ pc = "single"
    /\ i <= Len(anth_ids_single)
    /\ Matches(Splitext(Current)[1], anth_ids_single[i])

AtMultiple ==
    /\ pc = "multiple"
    /\ j <= Len(anth_ids_multiple)
    /\ Matches(Splitext(Current)[1], anth_ids_multiple[j][1])

(* ------------------------------- claims -------------------------------- *)
\* C1: when the loaded document holds a paper node with id P under a volume
\* node with id V and the single-video identifier at hand decomposes to
\* (collection, V, P), the call of add_video_tag_single appends exactly one
\* child to one such paper node, a video tag whose href is <id>.mp4, as its
\* last child; its earlier children and all other nodes stay as they were.
C1_Step ==
    LET anth_id == anth_ids_single[i]
        d == deconstruct_anthology_id(anth_id)
        targets == PapersWith(tree, d[2], d[3])
    IN  (AtSingle /\ targets # {}) =>
            \E loc \in targets :
                /\ OnlyAppended(tree', tree)
                /\ NewCount(tree', tree) = 1
                /\ NewChildren(tree', tree, loc) = << VideoTag(anth_id \o MP4) >>
                /\ anth_id \o MP4 \in DirNames

C1_SingleInsertAppendsOneTag == [][C1_Step]_vars

\* a single-video tag has just been appended to the paper of the document
C1_Witness ==
    /\ pc = "single"
    /\ i > 1
    /\ written[Current] > 0
    /\ \E loc \in Nodes(tree) :
          /\ Len(ChildrenAt(tree, loc)) > 1
          /\ ChildrenAt(tree, loc)[Len(ChildrenAt(tree, loc))]
                 = VideoTag(anth_ids_single[i - 1] \o MP4)

\* C2: the multi-video list is sorted by (id, n) in string order whatever
\* order the directory listed the files in, and is processed in that order:
\* when a run has completed, the paper node of every <id>.<n>.mp4 file of the
\* directory holds the tag <id>.<n>.mp4 among the children added by the run
\* (exactly once when the directory holds no name of more than three
\* segments), and the numbered tags added to a paper node follow each other
\* in the order of (id, n).
PairLess(a, b) ==
    \/ StrLess(a[1], b[1])
    \/ (a[1] = b[1] /\ StrLess(a[2], b[2]))

\* (id, n) of a reference <id>.<n>.mp4
PairOf(url) == << Split(url)[1], Split(url)[2] >>

IsNumberedUrl(url) == Len(Split(url)) > 2

WellFormedDir == \A name \in DirNames : IsMp4(name) => Dots(Stem(name)) <= 1

C2_ListSorted ==
    \A a, b \in 1..Len(anth_ids_multiple) :
        a < b => ~PairLess(anth_ids_multiple[b], anth_ids_multiple[a])

C2_ListComplete ==
    \A name \in DirNames :
        IsNumberedForm(name) =>
            Count(anth_ids_multiple, << IdOf(name), NumOf(name) >>) = 1

C2_TagsInOrder(t, t0) ==
    \A loc \in Nodes(t0) :
        LET new == NewChildren(t, t0, loc)
        IN  \A a, b \in 1..Len(new) :
                (a < b /\ IsNumberedUrl(new[a].href) /\ IsNumberedUrl(new[b].href))
                    => ~PairLess(PairOf(new[b].href), PairOf(new[a].href))

C2_TagPerFile ==
    \A name \in DirNames :
        (IsNumberedForm(name) /\ (CodeOf(name) \o XML) \in DataFiles) =>
            LET f == CodeOf(name) \o XML
                d == deconstruct_anthology_id(IdOf(name))
            IN  \E loc \in PapersWith(disk0[f], d[2], d[3]) :
                    LET n == Count(NewChildren(disk[f], disk0[f], loc), VideoTag(name))
                    IN  /\ n >= 1
                        /\ WellFormedDir => n = 1

C2_MultipleSortedOrder ==
    /\ Scanned => (C2_ListSorted /\ C2_ListComplete)
    /\ \A f \in DataFiles : C2_TagsInOrder(disk[f], disk0[f])
    /\ pc = "done" => C2_TagPerFile

\* a completed run over a directory that listed <id>.10.mp4 and <id>.2.mp4
\* (in either order) and a third numbered file
C2_Witness ==
    /\ pc = "done"
    /\ Len(anth_ids_multiple) >= 3
    /\ \E a, b \in 1..Len(dir_listing) :
          /\ a < b
          /\ IsNumberedForm(dir_listing[a])
          /\ IsNumberedForm(dir_listing[b])
          /\ PairLess(<< IdOf(dir_listing[b]), NumOf(dir_listing[b]) >>,
                      << IdOf(dir_listing[a]), NumOf(dir_listing[a]) >>)
    /\ \E f \in DataFiles : \E loc \in Nodes(disk0[f]) :
          Len(NewChildren(disk[f], disk0[f], loc)) >= 3

\* C3: insertion is not idempotent.  A matched identifier whose paper node is
\* found always adds one more copy of its tag to that node, also when the tag
\* is already there, and nothing is replaced; after the r-th completed run
\* over the same directory and store, the paper node of every <id>.mp4 file
\* holds r identical tags for it.
UrlAt ==
    IF pc = "single" THEN anth_ids_single[i] \o MP4
    ELSE anth_ids_multiple[j][1] \o <<".">> \o anth_ids_multiple[j][2] \o MP4

IdAt == IF pc = "single" THEN anth_ids_single[i] ELSE anth_ids_multiple[j][1]

C3_Step ==
    LET d == deconstruct_anthology_id(IdAt)
        targets == PapersWith(tree, d[2], d[3])
    IN  ((AtSingle \/ AtMultiple) /\ targets # {}) =>
            \E loc \in targets :
                /\ OnlyAppended(tree', tree)
                /\ Count(ChildrenAt(tree', loc), VideoTag(UrlAt))
                       = Count(ChildrenAt(tree, loc), VideoTag(UrlAt)) + 1
                /\ disk'[Current] = tree'

C3_Runs ==
    pc = "done" =>
        \A name \in DirNames :
            (IsSingleForm(name) /\ (CodeOf(name) \o XML) \in DataFiles) =>
                LET f == CodeOf(name) \o XML
                    d == deconstruct_anthology_id(IdOf(name))
                IN  \E loc \in PapersWith(disk[f], d[2], d[3]) :
                        Count(ChildrenAt(disk[f], loc), VideoTag(name)) = runs

C3_NotIdempotent == [][C3_Step]_vars /\ []C3_Runs

\* a second run has put a second, identical tag next to the first one
C3_Witness ==
    /\ runs = 2
    /\ pc \in {"single", "multiple"}
    /\ written[Current] > 0
    /\ \E loc \in Nodes(tree) :
          \E a, b \in 1..Len(ChildrenAt(tree, loc)) :
              /\ a < b
              /\ ChildrenAt(tree, loc)[a].tag = "video"
              /\ ChildrenAt(tree, loc)[a] = ChildrenAt(tree, loc)[b]
              /\ b = Len(ChildrenAt(tree, loc))

\* C4: a metadata file is selected exactly when its name without extension
\* is the collection code of an .mp4 file of the directory; a file that is
\* not selected is never parsed, changed or rewritten during the run.
ObservedCodes == { CodeOf(name) : name \in { n \in DirNames : IsMp4(n) } }

C4_SelectionByCollectionCode ==
    Scanned =>
        \A f \in DataFiles :
            /\ (f \in Range(xml_files)) <=> (BaseOf(f) \in ObservedCodes)
            /\ Count(xml_files, f) <= 1
            /\ f \notin Range(xml_files) =>
                   /\ f \notin loaded
                   /\ written[f] = 0
                   /\ disk[f] = disk0[f]

\* a run has finished that selected some files, left others out and wrote
C4_Witness ==
    /\ pc = "done"
    /\ \E f, g \in DataFiles :
          /\ f \in Range(xml_files)
          /\ written[f] > 0
          /\ g \notin Range(xml_files)
          /\ BaseOf(g) = R13
    /\ \E g \in DataFiles : g \notin Range(xml_files) /\ BaseOf(g) # R13

\* C5: the scanner puts every scanned file into one list by its form: the
\* single-video list holds exactly the <id> of the <id>.mp4 files, once each
\* and with no sequence number; every <id>.<n>.mp4 file with numeric <n> has
\* the pair (<id>, <n>) once in the multi-video list; an <id>.mp4 file has no
\* entry in the multi-video list and an <id>.<n>.mp4 file none in the
\* single-video list.
RECURSIVE JoinDots(_)
JoinDots(e) ==
    IF e = << >> THEN << >>
    ELSE IF Len(e) = 1 THEN e[1]
    ELSE e[1] \o <<".">> \o JoinDots(Tail(e))

C5_ClassifiedByForm ==
    Scanned =>
        /\ Range(anth_ids_single) = { IdOf(name) : name \in { n \in DirNames : IsSingleForm(n) } }
        /\ Len(anth_ids_single) = Cardinality({ n \in DirNames : IsSingleForm(n) })
        /\ \A name \in DirNames :
              IsNumberedForm(name) =>
                  /\ Count(anth_ids_multiple, << IdOf(name), NumOf(name) >>) = 1
                  /\ \A k \in 1..Len(anth_ids_single) :
                        anth_ids_single[k] \o MP4 # name
        /\ \A k \in 1..Len(anth_ids_multiple) :
              /\ Len(anth_ids_multiple[k]) >= 2
              /\ (JoinDots(anth_ids_multiple[k]) \o MP4) \in DirNames
              /\ ~IsSingleForm(JoinDots(anth_ids_multiple[k]) \o MP4)

\* a scan that met <id>.mp4 and <id>.<n>.mp4 files and one that is no .mp4
C5_Witness ==
    /\ Scanned
    /\ Len(anth_ids_single) >= 1
    /\ Len(anth_ids_multiple) >= 1
    /\ \E name \in DirNames : ~IsMp4(name)
    /\ \E name \in DirNames : IsNumberedForm(name)

\* C6: a file name whose number of period-delimited segments is neither two
\* nor three is in neither list.  (The code puts every name of more than
\* two segments into the multi-video list.)
Malformed(name) == IsMp4(name) /\ Dots(name) \notin {1, 2}

C6_MalformedSkipped ==
    Scanned =>
        \A name \in DirNames :
            Malformed(name) =>
                /\ \A k \in 1..Len(anth_ids_single) :
                      anth_ids_single[k] # IdOf(name)
                /\ \A k \in 1..Len(anth_ids_multiple) :
                      JoinDots(anth_ids_multiple[k]) \o MP4 # name

\* C7: when the document holds no paper node for a matched identifier, the
\* run fails at that step: no tag is inserted, the file is not rewritten, and
\* nothing more is processed in that run (the files after the current one
\* are never parsed or written).
C7_Step ==
    LET d == deconstruct_anthology_id(IdAt)
    IN  ((AtSingle \/ AtMultiple) /\ PapersWith(tree, d[2], d[3]) = {}) =>
            /\ pc' = "failed"
            /\ tree' = tree
            /\ disk' = disk
            /\ written' = written
            /\ inserted' = inserted

C7_Stopped ==
    pc = "failed" => (pc' = "scan" /\ runs' = runs + 1 /\ disk' = disk)

C7_LaterUntouched ==
    pc = "failed" =>
        \A k \in (doc + 1)..Len(xml_files) :
            /\ xml_files[k] \notin loaded
            /\ written[xml_files[k]] = 0
            /\ disk[xml_files[k]] = disk0[xml_files[k]]

C7_LookupMissIsFatal == [][C7_Step /\ C7_Stopped]_vars /\ []C7_LaterUntouched

\* a run has failed with identifiers or files still to come
C7_Witness ==
    /\ pc = "failed"
    /\ doc < Len(xml_files)
    /\ written[Current] > 0
    /\ LET anth_id == IF i <= Len(anth_ids_single) THEN anth_ids_single[i]
                      ELSE anth_ids_multiple[j][1]
           d == deconstruct_anthology_id(anth_id)
       IN  PapersWith(tree, d[2], d[3]) = {}

\* C8: nothing is rolled back.  At every point of a run, and so when it has
\* failed, every file holds what it held at the start of the run plus exactly
\* the tags inserted into it so far, the file being worked on equals the
\* in-memory tree, and the files not yet parsed are as they were.
C8_NoRollback ==
    /\ \A f \in DataFiles :
          /\ OnlyAppended(disk[f], disk0[f])
          /\ NewCount(disk[f], disk0[f]) = Len(inserted[f])
          /\ \A k \in 1..Len(inserted[f]) :
                \E loc \in Nodes(disk0[f]) :
                    Count(NewChildren(disk[f], disk0[f], loc), VideoTag(inserted[f][k]))
                        = Count(inserted[f], inserted[f][k])
          /\ f \notin loaded => disk[f] = disk0[f]
    /\ pc \in {"single", "multiple", "failed"} => disk[Current] = tree

\* a run failed in a later file after it had written an earlier one, with a
\* selected file still not reached
C8_Witness ==
    /\ pc = "failed"
    /\ \E f \in DataFiles : f # Current /\ written[f] > 0
    /\ \E g \in Range(xml_files) : g \notin loaded

\* C9: within one file every matched identifier is located, inserted and
\* written, single-video identifiers before multi-video ones: every change
\* of the in-memory tree is one insertion written out in the same step, the
\* k-th write of a file leaves exactly the first k inserted tags in it, and
\* in a completed run a file with N matched identifiers is written N times.
MatchCount(f) ==
    Cardinality({ k \in 1..Len(anth_ids_single) :
                      Contains(anth_ids_single[k], BaseOf(f)) })
    + Cardinality({ k \in 1..Len(anth_ids_multiple) :
                      Contains(anth_ids_multiple[k][1], BaseOf(f)) })

C9_Step ==
    (pc \in {"single", "multiple"} /\ tree' # tree) =>
        /\ NewCount(tree', tree) = 1
        /\ written' = [written EXCEPT ![Current] = @ + 1]
        /\ disk' = [disk EXCEPT ![Current] = tree']
        /\ inserted' = [inserted EXCEPT ![Current] = Append(@, UrlAt)]

C9_Writes ==
    \A f \in DataFiles :
        /\ written[f] = Len(inserted[f])
        /\ NewCount(disk[f], disk0[f]) = written[f]
        /\ \A a, b \in 1..Len(inserted[f]) :
              (IsNumberedUrl(inserted[f][a]) /\ ~IsNumberedUrl(inserted[f][b])) => b < a
        /\ pc = "done" =>
              written[f] = IF f \in Range(xml_files) THEN MatchCount(f) ELSE 0

C9_InsertThenWrite == [][C9_Step]_vars /\ []C9_Writes

\* a completed run that wrote one file three times, for single-video and
\* multi-video identifiers
C9_Witness ==
    /\ pc = "done"
    /\ \E f \in DataFiles :
          /\ written[f] = 3
          /\ \E a, b \in 1..Len(inserted[f]) :
                ~IsNumberedUrl(inserted[f][a]) /\ IsNumberedUrl(inserted[f][b])

\* C10: the lookup and insertion is attempted for a selected file and a
\* scanned identifier exactly when the identifier's collection code equals
\* the file's base code.  (The code tests whether the identifier contains
\* the base code.)
C10_OwnCollectionOnly ==
    /\ \A pair \in attempted : CodeOf(pair[2]) = BaseOf(pair[1])
    /\ pc = "done" =>
          \A f \in Range(xml_files) :
              /\ \A k \in 1..Len(anth_ids_single) :
                    CodeOf(anth_ids_single[k]) = BaseOf(f)
                        => << f, anth_ids_single[k] >> \in attempted
              /\ \A k \in 1..Len(anth_ids_multiple) :
                    CodeOf(anth_ids_multiple[k][1]) = BaseOf(f)
                        => << f, anth_ids_multiple[k][1] >> \in attempted

====
